---------------------------- MODULE Spec2Model ----------------------------
(***************************************************************************)
(* A model of marcview.py (MARC Record Viewer).                            *)
(*                                                                         *)
(* Byte strings and text are sequences of one-character strings.  Two      *)
(* opaque pieces of text, str(e) and traceback.format_exc(), are single    *)
(* elements of such a sequence (their characters are decided by the        *)
(* interpreter, not by the program).                                       *)
(*                                                                         *)
(* Three specifications:                                                   *)
(*   Spec        the window and load_marc_file, one step per statement     *)
(*               group of the handler;                                     *)
(*   SniffSpec   the format tests of load_marc_file over a large set of    *)
(*               buffers;                                                  *)
(*   RenderSpec  parse_record over a set of records.                       *)
(***************************************************************************)
EXTENDS Integers, Sequences, FiniteSets, TLC

(***************************************************************************)
(* Bounds of the model.                                                    *)
(***************************************************************************)
\* longest sequence of units (records) a Binary, Xml or Json decode yields
MaxUnits == 2
\* longest free tail of a buffer in SniffSpec
MaxTail == 2
\* most fields of a record in RenderSpec
MaxFields == 3

(***************************************************************************)
(* Program constants.                                                      *)
(***************************************************************************)
\* content[:100] in is_mnemonic
Window == 100
\* "=" * 40 in load_marc_file
SepWidth == 40
\* f"{field.tag:<4}" in parse_record
TagWidth == 4

(***************************************************************************)
(* Python's bytes/str operations, as the program uses them.                *)
(***************************************************************************)
\* the ASCII whitespace bytes.strip() removes (\v has no TLA+ literal)
Whitespace == {" ", "\t", "\n", "\r", "\f"}

Pad(c, n) == [k \in 1..n |-> c]

\* the positions of s that hold no whitespace
Solid(s) == { k \in 1..Len(s) : s[k] \notin Whitespace }

\* b.lstrip(): from the first byte that is not whitespace
LStrip(s) ==
    IF Solid(s) = {} THEN <<>>
    ELSE SubSeq(s, CHOOSE k \in Solid(s) : \A j \in Solid(s) : k <= j, Len(s))

\* b.rstrip(): up to the last byte that is not whitespace
RStrip(s) ==
    IF Solid(s) = {} THEN <<>>
    ELSE SubSeq(s, 1, CHOOSE k \in Solid(s) : \A j \in Solid(s) : k >= j)

\* b.strip()
Strip(s) == RStrip(LStrip(s))

\* b.startswith(p)
StartsWith(s, p) == Len(s) >= Len(p) /\ SubSeq(s, 1, Len(p)) = p

\* c in b, for a single byte c
Contains(s, c) == \E k \in 1..Len(s) : s[k] = c

\* b[:n]
Take(s, n) == SubSeq(s, 1, IF Len(s) < n THEN Len(s) ELSE n)

\* s.split('\n\n'): non-overlapping separators, scanned from the left
RECURSIVE SplitFrom(_, _)
SplitFrom(s, cur) ==
    IF s = <<>> THEN <<cur>>
    ELSE IF Len(s) >= 2 /\ s[1] = "\n" /\ s[2] = "\n"
         THEN <<cur>> \o SplitFrom(SubSeq(s, 3, Len(s)), <<>>)
         ELSE SplitFrom(Tail(s), Append(cur, Head(s)))

Split(s) == SplitFrom(s, <<>>)

\* f"{s:<n}": left-justified, padded with spaces, never truncated
Ljust(s, n) == IF Len(s) >= n THEN s ELSE s \o Pad(" ", n - Len(s))

RECURSIVE Cat(_)
Cat(ss) == IF ss = <<>> THEN <<>> ELSE Head(ss) \o Cat(Tail(ss))

\* ' '.join(parts)
RECURSIVE Join(_)
Join(parts) ==
    IF parts = <<>> THEN <<>>
    ELSE IF Len(parts) = 1 THEN parts[1]
    ELSE parts[1] \o <<" ">> \o Join(Tail(parts))

\* all sequences over S of length at most n
SeqsUpTo(S, n) == UNION { [1..k -> S] : k \in 0..n }

(***************************************************************************)
(* The format tests.                                                       *)
(***************************************************************************)
XmlPrefix == <<"<", "?", "x", "m", "l">>

is_marcxml(content) == StartsWith(Strip(content), XmlPrefix)

is_json(content) ==
    \/ StartsWith(Strip(content), <<"[">>)
    \/ StartsWith(Strip(content), <<"{">>)

is_mnemonic_stripped(content) ==
    Contains(Strip(content), "\n") /\ Contains(Take(Strip(content), Window), "=")

is_mnemonic(content) ==
    Contains(content, "\n") /\ Contains(Take(content, Window), "=")

\* the chain with an Unknown branch for a buffer that is blank
ClassifyWithUnknown(content) ==
    IF Strip(content) = <<>> THEN "Unknown"
    ELSE IF is_marcxml(content) THEN "Xml"
    ELSE IF is_json(content) THEN "Json"
    ELSE IF is_mnemonic(content) THEN "Mnemonic"
    ELSE "Binary"

\* the chain with the Mnemonic test tried first
ClassifyMnemonicFirst(content) ==
    IF is_mnemonic(content) THEN "Mnemonic"
    ELSE IF is_marcxml(content) THEN "Xml"
    ELSE IF is_json(content) THEN "Json"
    ELSE "Binary"

\* the if/elif chain of load_marc_file: the branch taken names the format
Classify(content) ==
    IF is_marcxml(content) THEN "Xml"
    ELSE IF is_json(content) THEN "Json"
    ELSE IF is_mnemonic(content) THEN "Mnemonic"
    ELSE "Binary"

(***************************************************************************)
(* Text literals of the program.                                           *)
(***************************************************************************)
RecordIdLabel == <<"R", "e", "c", "o", "r", "d", " ", "I", "D", ":", " ">>

NoId == <<"N", "o", " ", "I", "D">>

DetailsLabel == <<"\n", "D", "e", "t", "a", "i", "l", "s", ":", "\n">>

ParseErrorLabel ==
    <<"E", "r", "r", "o", "r", " ", "p", "a", "r", "s", "i", "n", "g", " ",
      "r", "e", "c", "o", "r", "d", ":", " ">>

ReadErrorLabel ==
    <<"E", "r", "r", "o", "r", " ", "r", "e", "a", "d", "i", "n", "g", " ",
      "M", "A", "R", "C", " ", "f", "i", "l", "e", ":", " ">>

\* str(e) and traceback.format_exc() of an exception of class e: opaque
StrOf(e) == <<"str(" \o e \o ")">>

TracebackOf(e) == <<"traceback(" \o e \o ")">>

\* "\n" + "=" * 40 + "\n"
Separator == <<"\n">> \o Pad("=", SepWidth) \o <<"\n">>

(***************************************************************************)
(* Python objects the decoders hand to parse_record.  A pymarc Record is   *)
(* its sequence of fields; a field is a control field (tag, data) or a     *)
(* data field (tag, two indicators, subfields).  legacy marks a data field *)
(* whose subfields are plain strings (pymarc before 5), on which           *)
(* subfield.code raises AttributeError.                                    *)
(***************************************************************************)
None == [type |-> "NoneType", fields |-> <<>>]

RecordObj(fields) == [type |-> "Record", fields |-> fields]

ControlField(tag, data) ==
    [control |-> TRUE, tag |-> tag, data |-> data, indicators |-> <<>>,
     subfields |-> <<>>, legacy |-> FALSE]

DataField(tag, ind1, ind2, subfields) ==
    [control |-> FALSE, tag |-> tag, data |-> <<>>, indicators |-> <<ind1, ind2>>,
     subfields |-> subfields, legacy |-> FALSE]

LegacyDataField(tag, ind1, ind2, subfields) ==
    [control |-> FALSE, tag |-> tag, data |-> <<>>, indicators |-> <<ind1, ind2>>,
     subfields |-> subfields, legacy |-> TRUE]

Subfield(code, value) == [code |-> code, value |-> value]

\* field.is_control_field()
is_control_field(field) == field.control

\* '001' in record
HasTag(record, tag) == \E k \in 1..Len(record.fields) : record.fields[k].tag = tag

\* record['001']: the first field with that tag
FirstWithTag(record, tag) ==
    record.fields[CHOOSE k \in 1..Len(record.fields) :
                    /\ record.fields[k].tag = tag
                    /\ \A j \in 1..(k - 1) : record.fields[j].tag # tag]

\* field.value(): a control field's data, a data field's subfield values
FieldValue(field) ==
    IF field.control THEN field.data
    ELSE Join([k \in 1..Len(field.subfields) |-> field.subfields[k].value])

Tag001 == <<"0", "0", "1">>

(***************************************************************************)
(* parse_record.  Its result is returned text, or an exception that leaves *)
(* the function: the except clause names KeyError and AttributeError only. *)
(***************************************************************************)
Returned(text) == [raised |-> FALSE, text |-> text, exc |-> ""]

Raised(e) == [raised |-> TRUE, text |-> <<>>, exc |-> e]

\* f"{subfield.code} {subfield.value}"
SubfieldText(sf) == <<sf.code>> \o <<" ">> \o sf.value

\* the line of one field, without the space the f-string puts after the tag
FieldLineNoGap(field) ==
    IF is_control_field(field)
    THEN field.tag \o <<":", " ">> \o field.data \o <<"\n">>
    ELSE Ljust(field.tag, TagWidth)
         \o <<field.indicators[1], field.indicators[2]>> \o <<" ">>
         \o Join([k \in 1..Len(field.subfields) |-> SubfieldText(field.subfields[k])])
         \o <<"\n">>

\* the line of one field
FieldLine(field) ==
    IF is_control_field(field)
    THEN field.tag \o <<":", " ">> \o field.data \o <<"\n">>
    ELSE Ljust(field.tag, TagWidth) \o <<" ">>
         \o <<field.indicators[1], field.indicators[2]>> \o <<" ">>
         \o Join([k \in 1..Len(field.subfields) |-> SubfieldText(field.subfields[k])])
         \o <<"\n">>

\* the first line
RecordIdLine(record) ==
    RecordIdLabel
    \o (IF HasTag(record, Tag001) THEN FieldValue(FirstWithTag(record, Tag001)) ELSE NoId)
    \o <<"\n">>

\* the exception the try body raises, "" when it raises none
RenderException(record) ==
    IF record.type # "Record" THEN "TypeError"
    ELSE IF \E k \in 1..Len(record.fields) :
                /\ ~is_control_field(record.fields[k])
                /\ record.fields[k].legacy
                /\ record.fields[k].subfields # <<>>
         THEN "AttributeError"
         ELSE ""

ParseRecordCaught == {"KeyError", "AttributeError"}

ParseErrorMessage(e) == ParseErrorLabel \o StrOf(e) \o DetailsLabel \o TracebackOf(e)

parse_record(record) ==
    LET e == RenderException(record) IN
    IF e = ""
    THEN Returned(RecordIdLine(record)
                  \o Cat([k \in 1..Len(record.fields) |-> FieldLine(record.fields[k])]))
    ELSE IF e \in ParseRecordCaught THEN Returned(ParseErrorMessage(e))
    ELSE Raised(e)

(***************************************************************************)
(* Exceptions: a class name, and the classes it is an instance of.         *)
(* IOError is OSError; the library's own classes derive from Exception.    *)
(***************************************************************************)
Bases(e) ==
    CASE e = "FileNotFoundError"  -> {"FileNotFoundError", "OSError", "IOError", "Exception"}
      [] e = "UnicodeDecodeError" -> {"UnicodeDecodeError", "ValueError", "Exception"}
      [] e = "JSONDecodeError"    -> {"JSONDecodeError", "ValueError", "Exception"}
      [] OTHER                    -> {e, "Exception"}

\* except (UnicodeDecodeError, IOError) in load_marc_file
LoadCaught == {"UnicodeDecodeError", "IOError"}

\* except (StopIteration, TypeError) in parse_mnemonic_records
MnemonicCaught == {"StopIteration", "TypeError"}

IsInstance(e, classes) == Bases(e) \cap classes # {}

\* the message load_marc_file shows for a caught exception
ReadErrorMessage(e) == ReadErrorLabel \o StrOf(e) \o DetailsLabel \o TracebackOf(e)

(***************************************************************************)
(* The records of the model's inputs.                                      *)
(***************************************************************************)
Tag245 == <<"2", "4", "5">>

Field001 == ControlField(Tag001, <<"1", "2", "3", "4", "5">>)

Field245 ==
    DataField(Tag245, "1", "0", <<Subfield("a", <<"T", "i">>), Subfield("c", <<"X">>)>>)

Legacy245 == LegacyDataField(Tag245, "1", "0", <<Subfield("a", <<"T", "i">>)>>)

RecordWithId == RecordObj(<<Field001, Field245>>)

RecordWithoutId == RecordObj(<<Field245>>)

\* a record whose data field holds its subfields as plain strings
RecordLegacy == RecordObj(<<Legacy245>>)

DecodedObjects == {RecordWithId, RecordWithoutId, RecordLegacy}

(***************************************************************************)
(* What the decoders find in a buffer.  A unit is one record of a Binary   *)
(* buffer, one record element of an Xml or Json document, or one block of  *)
(* a Mnemonic text.  Decoding a unit gives an object or fails with an      *)
(* exception; which, is decided by bytes the model does not hold, so it is *)
(* chosen when the decoder runs.                                           *)
(***************************************************************************)
UnitOk(obj) == [ok |-> TRUE, obj |-> obj, exc |-> ""]

UnitBad(e) == [ok |-> FALSE, obj |-> None, exc |-> e]

OkUnits == { UnitOk(o) : o \in DecodedObjects }

\* a Binary record whose directory points past the record
BadDirectory == UnitBad("RecordDirectoryInvalid")

\* a Binary buffer too short to hold a record length
BadLength == UnitBad("RecordLengthInvalid")

\* what next(TextReader(...)) raises on a block it cannot read: the two
\* exceptions parse_mnemonic_records expects of it
BlockFailures == {UnitBad("StopIteration"), UnitBad("TypeError")}

Digits == {"0", "1", "2", "3", "4", "5", "6", "7", "8", "9"}

\* MARCReader stops at once on an empty file, fails on a buffer that does
\* not start with a record length, and else reads one record after another
BinaryUnitChoices(content) ==
    IF content = <<>> THEN {<<>>}
    ELSE IF Head(content) \notin Digits THEN {<<BadLength>>}
    ELSE SeqsUpTo(OkUnits \cup {BadDirectory}, MaxUnits) \ {<<>>}

\* list(MARCReader(...)): a record that cannot be decoded is yielded as None
MARCReaderList(us) == [k \in 1..Len(us) |-> IF us[k].ok THEN us[k].obj ELSE None]

\* content_str.strip().split('\n\n')
MnemonicBlocks(content) == Split(Strip(content))

\* parse_mnemonic_records_fallback: one None per block
parse_mnemonic_records_fallback(content) ==
    [k \in 1..Len(MnemonicBlocks(content)) |-> None]

\* the loop of parse_mnemonic_records over the blocks' results: a block that
\* raises StopIteration or TypeError is passed over, any other exception
\* leaves the function
RECURSIVE MnemonicLoop(_, _)
MnemonicLoop(us, acc) ==
    IF us = <<>> THEN [raised |-> FALSE, records |-> acc, exc |-> ""]
    ELSE IF Head(us).ok THEN MnemonicLoop(Tail(us), Append(acc, Head(us).obj))
    ELSE IF IsInstance(Head(us).exc, MnemonicCaught) THEN MnemonicLoop(Tail(us), acc)
    ELSE [raised |-> TRUE, records |-> <<>>, exc |-> Head(us).exc]

parse_mnemonic_records(reader, content, us) ==
    IF ~reader
    THEN [raised |-> FALSE, records |-> parse_mnemonic_records_fallback(content), exc |-> ""]
    ELSE MnemonicLoop(us, <<>>)

(***************************************************************************)
(* The window and load_marc_file.                                          *)
(***************************************************************************)
VARIABLES
    pc,                 \* "idle", "sniff", "loop", "crashed"; "off" outside Spec
    textReader,         \* whether pymarc provides TextReader (line 14-17)
    placeholderVisible, \* placeholder_label is shown
    textVisible,        \* text_edit is shown
    text,               \* the text of text_edit
    wrote,              \* the call that ended last called text_edit.setText
    content,            \* load_marc_file: content
    decoder,            \* load_marc_file: the branch of the if/elif chain taken
    docValid,           \* the Xml or Json document is well formed
    units,              \* what the decoder found, unit by unit
    records,            \* load_marc_file: records
    done,               \* load_marc_file: records rendered so far
    record_output,      \* load_marc_file: record_output
    outcome,            \* how the last call ended
    exc,                \* the exception that ended it, or ""
    buf, fmt,           \* SniffSpec
    rec, out            \* RenderSpec

guiVars == <<placeholderVisible, textVisible, text>>

localVars == <<content, decoder, docValid, units, records, done, record_output>>

mainVars == <<pc, textReader, guiVars, wrote, localVars, outcome, exc>>

sniffVars == <<buf, fmt>>

renderVars == <<rec, out>>

vars == <<mainVars, sniffVars, renderVars>>

\* the buffers of Spec: empty, blank, Xml, Json, Mnemonic of one and of two
\* blocks, and Binary
EmptyBuffer == <<>>

BlankBuffer == <<" ", "\n">>

XmlBuffer == <<" ">> \o XmlPrefix \o <<"\n", "=">>

JsonBuffer == <<"[", "\n", "=">>

OneBlockBuffer == <<"=", "a", "\n">>

TwoBlockBuffer == <<"=", "a", "\n", "\n", "=", "b">>

BinaryBuffer == <<"0", "0", "a">>

Buffers ==
    {EmptyBuffer, BlankBuffer, XmlBuffer, JsonBuffer, OneBlockBuffer, TwoBlockBuffer,
     BinaryBuffer}

SniffParked == buf = <<>> /\ fmt = "off"

RenderParked == rec = None /\ out = Returned(<<>>)

\* __init__: the placeholder is shown, the text area hidden
Init ==
    /\ pc = "idle"
    /\ textReader \in BOOLEAN
    /\ placeholderVisible = TRUE
    /\ textVisible = FALSE
    /\ text = <<>>
    /\ wrote = FALSE
    /\ content = <<>>
    /\ decoder = ""
    /\ docValid = TRUE
    /\ units = <<>>
    /\ records = <<>>
    /\ done = 0
    /\ record_output = <<>>
    /\ outcome = "none"
    /\ exc = ""
    /\ SniffParked
    /\ RenderParked

Parked == UNCHANGED <<textReader, sniffVars, renderVars>>

\* an exception e raised inside the try block of load_marc_file, judged by
\* an except clause that names `caught`: shown as text, or leaving the call.
\* An exception that leaves the call leaves dropEvent too; PyQt5 then aborts
\* the process (5.5 and later) or reports it and goes on (earlier).
RaiseInLoad(e, caught) ==
    IF IsInstance(e, caught)
    THEN /\ text' = ReadErrorMessage(e)
         /\ wrote' = TRUE
         /\ outcome' = "error_shown"
         /\ exc' = e
         /\ pc' = "idle"
    ELSE /\ text' = text
         /\ wrote' = FALSE
         /\ outcome' = "raised"
         /\ exc' = e
         /\ pc' \in {"idle", "crashed"}

\* the except clause of load_marc_file
HandleInLoad(e) ==
    /\ RaiseInLoad(e, LoadCaught)
    /\ UNCHANGED <<placeholderVisible, textVisible>>

FreshLocals ==
    /\ decoder' = ""
    /\ docValid' = TRUE
    /\ units' = <<>>
    /\ records' = <<>>
    /\ done' = 0
    /\ record_output' = <<>>

\* load_marc_file, lines 75-77 failing: open() or read() raises an OSError
OpenFail ==
    /\ pc = "idle"
    /\ content' = <<>>
    /\ FreshLocals
    /\ HandleInLoad("FileNotFoundError")
    /\ Parked

\* load_marc_file, lines 75-81: the file is read, the placeholder hidden and
\* the text area shown
OpenOk ==
    /\ pc = "idle"
    /\ \E c \in Buffers : content' = c
    /\ FreshLocals
    /\ placeholderVisible' = FALSE
    /\ textVisible' = TRUE
    /\ pc' = "sniff"
    /\ outcome' = "running"
    /\ exc' = ""
    /\ wrote' = FALSE
    /\ UNCHANGED text
    /\ Parked

StartLoop(rs) ==
    /\ records' = rs
    /\ done' = 0
    /\ record_output' = <<>>
    /\ pc' = "loop"
    /\ UNCHANGED <<guiVars, wrote, outcome, exc>>

\* lines 84-87: parse_xml_to_array / parse_json_to_array on the whole
\* document; a document that is not well formed makes the parser raise one
\* of `failures`
DecodeDocument(format, failures) ==
    /\ pc = "sniff"
    /\ Classify(content) = format
    /\ decoder' = format
    /\ \/ /\ docValid' = TRUE
          /\ \E us \in SeqsUpTo(OkUnits, MaxUnits) :
                /\ units' = us
                /\ StartLoop([k \in 1..Len(us) |-> us[k].obj])
       \/ /\ docValid' = FALSE
          /\ units' = <<>>
          /\ UNCHANGED <<records, done, record_output>>
          /\ \E e \in failures : HandleInLoad(e)
    /\ UNCHANGED content
    /\ Parked

\* a syntax error, or bytes that are not text in the declared encoding
DecodeXml == DecodeDocument("Xml", {"SAXParseException", "UnicodeDecodeError"})

DecodeJson == DecodeDocument("Json", {"JSONDecodeError", "UnicodeDecodeError"})

\* lines 88-89: parse_mnemonic_records
DecodeMnemonic ==
    /\ pc = "sniff"
    /\ Classify(content) = "Mnemonic"
    /\ decoder' = "Mnemonic"
    /\ docValid' = TRUE
    /\ \E us \in [1..Len(MnemonicBlocks(content)) -> OkUnits \cup BlockFailures] :
          LET r == parse_mnemonic_records(textReader, content, us) IN
          /\ units' = us
          /\ IF r.raised
             THEN /\ UNCHANGED <<records, done, record_output>>
                  /\ HandleInLoad(r.exc)
             ELSE StartLoop(r.records)
    /\ UNCHANGED content
    /\ Parked

\* lines 90-93: list(MARCReader(...))
DecodeBinary ==
    /\ pc = "sniff"
    /\ Classify(content) = "Binary"
    /\ decoder' = "Binary"
    /\ docValid' = TRUE
    /\ \E us \in BinaryUnitChoices(content) :
          /\ units' = us
          /\ StartLoop(MARCReaderList(us))
    /\ UNCHANGED content
    /\ Parked

\* the loop body with the separator added after rendered records only
AppendBlockNoSepOnError(acc, record, block) ==
    IF RenderException(record) = "" THEN acc \o block \o Separator ELSE acc \o block

\* lines 97-98: record_output += parse_record(record); record_output += sep
AppendBlock(acc, record, block) == acc \o block \o Separator

\* lines 96-98: one pass of the loop
RenderRecord ==
    /\ pc = "loop"
    /\ done < Len(records)
    /\ LET r == parse_record(records[done + 1]) IN
       IF r.raised
       THEN /\ HandleInLoad(r.exc)
            /\ UNCHANGED <<done, record_output>>
       ELSE /\ record_output' = AppendBlock(record_output, records[done + 1], r.text)
            /\ done' = done + 1
            /\ UNCHANGED <<pc, guiVars, wrote, outcome, exc>>
    /\ UNCHANGED <<content, decoder, docValid, units, records>>
    /\ Parked

\* line 99: the loop is over, text_edit.setText(record_output)
Finish ==
    /\ pc = "loop"
    /\ done = Len(records)
    /\ text' = record_output
    /\ wrote' = TRUE
    /\ outcome' = "displayed"
    /\ pc' = "idle"
    /\ UNCHANGED <<placeholderVisible, textVisible, localVars, exc>>
    /\ Parked

Next ==
    \/ OpenFail
    \/ OpenOk
    \/ DecodeXml
    \/ DecodeJson
    \/ DecodeMnemonic
    \/ DecodeBinary
    \/ RenderRecord
    \/ Finish

Spec == Init /\ [][Next]_vars

(***************************************************************************)
(* SniffSpec: the format tests applied to buffers lead \o head \o gap \o   *)
(* tail.  The lead and the gap make the first 100 bytes of the buffer and  *)
(* of the trimmed buffer differ.                                           *)
(***************************************************************************)
SniffLeads == {<<>>, <<" ">>, <<"\n">>, Pad(" ", Window)}

SniffHeads == {<<>>, XmlPrefix, <<"[">>, <<"{">>, <<"<", "?", "x">>, <<"0">>}

SniffGaps == {<<>>, Pad("a", Window)}

SniffTails == SeqsUpTo({"=", "\n", "a"}, MaxTail)

SniffBuffers ==
    { l \o h \o g \o t :
        l \in SniffLeads, h \in SniffHeads, g \in SniffGaps, t \in SniffTails }

MainParked ==
    /\ pc = "off"
    /\ textReader = FALSE
    /\ placeholderVisible = TRUE
    /\ textVisible = FALSE
    /\ text = <<>>
    /\ wrote = FALSE
    /\ content = <<>>
    /\ decoder = ""
    /\ docValid = TRUE
    /\ units = <<>>
    /\ records = <<>>
    /\ done = 0
    /\ record_output = <<>>
    /\ outcome = "none"
    /\ exc = ""

SniffInit == buf \in SniffBuffers /\ fmt = "unset" /\ MainParked /\ RenderParked

Sniff ==
    /\ fmt = "unset"
    /\ fmt' = Classify(buf)
    /\ UNCHANGED <<buf, mainVars, renderVars>>

SniffNext == Sniff

SniffSpec == SniffInit /\ [][SniffNext]_vars

(***************************************************************************)
(* RenderSpec: parse_record applied to records of up to MaxFields fields.  *)
(***************************************************************************)
Tag008 == <<"0", "0", "8">>

FieldPool ==
    {Field001,
     ControlField(Tag001, <<"9">>),
     ControlField(Tag008, <<"a", " ", "b">>),
     Field245,
     DataField(<<"9", "0">>, " ", "4", <<>>),
     DataField(<<"8", "8", "0", "x", "y">>, "2", " ", <<Subfield("6", <<"z">>)>>),
     Legacy245}

RenderRecords == { RecordObj(fs) : fs \in SeqsUpTo(FieldPool, MaxFields) } \cup {None}

RenderInit == rec \in RenderRecords /\ out = Returned(<<"unset">>) /\ MainParked /\ SniffParked

Render ==
    /\ out = Returned(<<"unset">>)
    /\ out' = parse_record(rec)
    /\ UNCHANGED <<rec, mainVars, sniffVars>>

RenderNext == Render

RenderSpec == RenderInit /\ [][RenderNext]_vars

(***************************************************************************)
(* Vocabulary of the properties.  These definitions restate what the       *)
(* output should look like; they do not use the operators of the program   *)
(* above, except to name the text that renders one record.                 *)
(***************************************************************************)
\* a line of exactly 40 "=" characters
SeparatorLine == [k \in 1..40 |-> "="]

\* the separator as it stands in the output: it ends the block's last line,
\* then the line of 40 "=", then a newline
SeparatorText == <<"\n">> \o SeparatorLine \o <<"\n">>

\* the i-th smallest member of the set P of positions
Nth(P, i) == CHOOSE k \in P : Cardinality({ j \in P : j <= k }) = i

\* the pieces of t between its newlines
Lines(t) ==
    LET nl == { k \in 1..Len(t) : t[k] = "\n" }
        n == Cardinality(nl)
        from(i) == IF i = 1 THEN 1 ELSE Nth(nl, i - 1) + 1
        to(i) == IF i = n + 1 THEN Len(t) ELSE Nth(nl, i) - 1
    IN [i \in 1..(n + 1) |-> SubSeq(t, from(i), to(i))]

SeparatorLineCount(t) ==
    Cardinality({ k \in 1..Len(Lines(t)) : Lines(t)[k] = SeparatorLine })

\* the pieces of t between the occurrences of the separator
Blocks(t) ==
    LET w == Len(SeparatorText)
        at == { k \in 1..(Len(t) - w + 1) : SubSeq(t, k, k + w - 1) = SeparatorText }
        n == Cardinality(at)
        from(i) == IF i = 1 THEN 1 ELSE Nth(at, i - 1) + w
        to(i) == IF i = n + 1 THEN Len(t) ELSE Nth(at, i) - 1
    IN [i \in 1..(n + 1) |-> SubSeq(t, from(i), to(i))]

\* a record object that renders: a Record none of whose fields lacks an accessor
Renders(obj) ==
    /\ obj.type = "Record"
    /\ \A k \in 1..Len(obj.fields) : ~obj.fields[k].legacy

\* an inline error block
IsErrorBlock(block) ==
    /\ Len(block) >= 22
    /\ SubSeq(block, 1, 22) =
         <<"E", "r", "r", "o", "r", " ", "p", "a", "r", "s", "i", "n", "g", " ",
           "r", "e", "c", "o", "r", "d", ":", " ">>

\* a top-level error is what the text area holds
IsTopLevelError(t) ==
    /\ Len(t) >= 25
    /\ SubSeq(t, 1, 25) =
         <<"E", "r", "r", "o", "r", " ", "r", "e", "a", "d", "i", "n", "g", " ",
           "M", "A", "R", "C", " ", "f", "i", "l", "e", ":", " ">>

\* a call of load_marc_file has ended
CallEnded == pc \in {"idle", "crashed"} /\ outcome \notin {"none", "running"}

\* block k of the output is record obj's: its text, or an error block
SlotHolds(block, obj) ==
    IF Renders(obj) THEN block = parse_record(obj).text ELSE IsErrorBlock(block)

\* the text is one block per object of objs, each followed by a separator
IsBatchOf(t, objs) ==
    /\ Len(Blocks(t)) = Len(objs) + 1
    /\ Blocks(t)[Len(objs) + 1] = <<>>
    /\ \A k \in 1..Len(objs) : SlotHolds(Blocks(t)[k], objs[k])

(***************************************************************************)
(* C1.  Original claim: a failure while rendering one record never aborts  *)
(* the batch.  Whenever a call that decoded a non-empty record sequence    *)
(* has ended, it ended by displaying one block per record, the failing     *)
(* records' slots holding an inline error block, a None record included.   *)
(* Violated: parse_record(None) raises TypeError, which neither            *)
(* parse_record nor load_marc_file catches.                                *)
(***************************************************************************)
C1_RenderFailureNeverAborts ==
    (CallEnded /\ records # <<>>) =>
        /\ outcome = "displayed"
        /\ done = Len(records)
        /\ IsBatchOf(text, records)

(***************************************************************************)
(* C2.  Original claim: an Xml or Json document that is not well formed    *)
(* ends the call with one top-level error as output and no record text,    *)
(* never with an exception leaving the call.  Violated: the parsers'       *)
(* syntax errors are not among the exceptions load_marc_file catches.      *)
(***************************************************************************)
C2_InvalidDocumentIsTopLevelError ==
    (CallEnded /\ decoder \in {"Xml", "Json"} /\ ~docValid) =>
        /\ outcome = "error_shown"
        /\ IsTopLevelError(text)
        /\ SeparatorLineCount(text) = 0

(***************************************************************************)
(* C3.  Original claim: for a Mnemonic text of two blocks, the first well  *)
(* formed and the second malformed, the call ends by displaying the first  *)
(* record rendered and an inline error block for the second.  Violated:    *)
(* with TextReader the second block is passed over without a trace or its  *)
(* exception leaves the call; without TextReader every block is None and   *)
(* rendering raises (see C1).                                              *)
(***************************************************************************)
C3_MalformedBlockIsMarked ==
    (/\ CallEnded
     /\ decoder = "Mnemonic"
     /\ Len(units) = 2
     /\ units[1].ok /\ Renders(units[1].obj)
     /\ ~units[2].ok) =>
        /\ outcome = "displayed"
        /\ Len(Blocks(text)) = 3
        /\ Blocks(text)[1] = parse_record(units[1].obj).text
        /\ IsErrorBlock(Blocks(text)[2])

(***************************************************************************)
(* C4.  Original claim: in a Binary buffer, a record whose directory       *)
(* points past the record is a contained failure, and every later record   *)
(* is still decoded and rendered.  Violated: the reader yields None for    *)
(* that record and rendering None raises (see C1), so nothing is shown.    *)
(***************************************************************************)
C4_BadDirectoryIsContained ==
    (/\ CallEnded
     /\ decoder = "Binary"
     /\ \E k \in 1..Len(units) : units[k] = BadDirectory) =>
        /\ outcome = "displayed"
        /\ Len(Blocks(text)) = Len(units) + 1
        /\ \A k \in 1..Len(units) :
              (units[k].ok /\ Renders(units[k].obj)) =>
                  Blocks(text)[k] = parse_record(units[k].obj).text

C6_PrefixRulesFirst ==
    fmt \notin {"off", "unset"} =>
        /\ StartsWith(Strip(buf), <<"<", "?", "x", "m", "l">>) => fmt = "Xml"
        /\ (StartsWith(Strip(buf), <<"[">>) \/ StartsWith(Strip(buf), <<"{">>))
              => fmt = "Json"

C6_Witness ==
    /\ fmt = "Json"
    /\ Head(buf) = "\n"
    /\ StartsWith(Strip(buf), <<"{">>)
    /\ \E k \in 1..Len(buf) : k <= 100 /\ buf[k] = "="
    /\ \E k \in 1..Len(Strip(buf)) : Strip(buf)[k] = "\n"

\* neither prefix rule matches the buffer
NoPrefixRule(b) ==
    /\ ~StartsWith(Strip(b), <<"<", "?", "x", "m", "l">>)
    /\ ~StartsWith(Strip(b), <<"[">>)
    /\ ~StartsWith(Strip(b), <<"{">>)

\* b holds a newline, and "=" among its first 100 bytes
NewlineAndEarlyEquals(b) ==
    /\ \E k \in 1..Len(b) : b[k] = "\n"
    /\ \E k \in 1..Len(b) : k <= 100 /\ b[k] = "="

(***************************************************************************)
(* C7.  Original claim: a non-empty buffer that neither prefix rule        *)
(* matches is Mnemonic exactly when the TRIMMED buffer holds a newline     *)
(* and holds "=" in its first 100 bytes, and Binary otherwise.             *)
(***************************************************************************)
C7_MnemonicTestOnTrimmed ==
    (fmt \notin {"off", "unset"} /\ buf # <<>> /\ NoPrefixRule(buf)) =>
        /\ fmt \in {"Mnemonic", "Binary"}
        /\ fmt = "Mnemonic" <=> NewlineAndEarlyEquals(Strip(buf))

(***************************************************************************)
(* C7, amended.  A non-empty buffer that neither prefix rule matches is    *)
(* Mnemonic exactly when the buffer AS READ, untrimmed, holds a newline    *)
(* and holds "=" in its first 100 bytes, and Binary otherwise.             *)
(***************************************************************************)
C7_MnemonicTestOnUntrimmed ==
    (fmt \notin {"off", "unset"} /\ buf # <<>> /\ NoPrefixRule(buf)) =>
        /\ fmt \in {"Mnemonic", "Binary"}
        /\ fmt = "Mnemonic" <=> NewlineAndEarlyEquals(buf)

\* the two tests disagree: the only newline is trailing whitespace
C7_Witness ==
    /\ fmt = "Mnemonic"
    /\ NoPrefixRule(buf)
    /\ NewlineAndEarlyEquals(buf)
    /\ ~NewlineAndEarlyEquals(Strip(buf))

(***************************************************************************)
(* C8.  At every step of the loop the accumulated output is the blocks of  *)
(* the records processed so far, in order, each followed by one separator  *)
(* line of 40 "="; so the separator lines number the records processed,    *)
(* and a call that ends by displaying shows one per decoded record: the    *)
(* empty text for zero records.                                            *)
(***************************************************************************)
C8_SeparatorAfterEveryBlock ==
    /\ done <= Len(records)
    /\ record_output =
          Cat([k \in 1..done |-> parse_record(records[k]).text \o SeparatorText])
    /\ SeparatorLineCount(record_output) = done
    /\ \A k \in 1..done : ~parse_record(records[k]).raised
    /\ outcome = "displayed" =>
          /\ done = Len(records)
          /\ text = record_output
          /\ SeparatorLineCount(text) = Len(records)
          /\ records = <<>> => text = <<>>

\* two records processed, the first one's block an inline error block
C8_Witness ==
    /\ pc = "loop"
    /\ done = 2
    /\ ~Renders(records[1])
    /\ Renders(records[2])
    /\ IsErrorBlock(Blocks(record_output)[1])

(***************************************************************************)
(* The layout of one rendered record, as a claim states it.  `gap` is what *)
(* stands between the tag, padded to width 4, and the first indicator.     *)
(***************************************************************************)
LayoutTag(tag) == IF Len(tag) >= 4 THEN tag ELSE tag \o [k \in 1..(4 - Len(tag)) |-> " "]

RECURSIVE LayoutSubfields(_)
LayoutSubfields(sfs) ==
    IF sfs = <<>> THEN <<>>
    ELSE <<sfs[1].code, " ">> \o sfs[1].value
         \o (IF Len(sfs) > 1 THEN <<" ">> ELSE <<>>)
         \o LayoutSubfields(Tail(sfs))

LayoutField(f, gap) ==
    IF f.control
    THEN f.tag \o <<":", " ">> \o f.data
    ELSE LayoutTag(f.tag) \o gap \o <<f.indicators[1], f.indicators[2], " ">>
         \o LayoutSubfields(f.subfields)

\* the value of the first control field tagged 001, or No ID
LayoutId(r) ==
    LET ids == { k \in 1..Len(r.fields) :
                    r.fields[k].control /\ r.fields[k].tag = <<"0", "0", "1">> }
    IN IF ids = {} THEN <<"N", "o", " ", "I", "D">>
       ELSE r.fields[CHOOSE k \in ids : \A j \in ids : k <= j].data

\* the lines of the layout
LayoutLines(r, gap) ==
    <<(<<"R", "e", "c", "o", "r", "d", " ", "I", "D", ":", " ">> \o LayoutId(r))>>
    \o [k \in 1..Len(r.fields) |-> LayoutField(r.fields[k], gap)]

\* text is these lines, each ended by a newline
IsLayout(t, r, gap) ==
    /\ Len(Lines(t)) = Len(r.fields) + 2
    /\ Lines(t)[Len(r.fields) + 2] = <<>>
    /\ \A k \in 1..(Len(r.fields) + 1) : Lines(t)[k] = LayoutLines(r, gap)[k]

Rendered == out # Returned(<<"unset">>)

(***************************************************************************)
(* C9.  Original claim: the rendered record is the Record ID line, then    *)
(* one line per field in field order, a data field's being the tag padded  *)
(* to width 4 IMMEDIATELY followed by the two indicators, a space and the  *)
(* subfields.                                                              *)
(***************************************************************************)
C9_LayoutTagThenIndicators ==
    (Rendered /\ Renders(rec)) => (~out.raised /\ IsLayout(out.text, rec, <<>>))

(***************************************************************************)
(* C9, amended.  As claimed, except that a data field's line is the tag    *)
(* padded to width 4, ONE SPACE, the two indicators, a space and the       *)
(* subfields ("245  10 a Ti c X").                                         *)
(***************************************************************************)
C9_LayoutTagSpaceIndicators ==
    (Rendered /\ Renders(rec)) => (~out.raised /\ IsLayout(out.text, rec, <<" ">>))

\* two 001 fields with different values, then a data field of two subfields
C9_Witness ==
    /\ Rendered
    /\ rec = RecordObj(<<ControlField(Tag001, <<"9">>), Field001, Field245>>)
    /\ Lines(out.text)[1] = <<"R", "e", "c", "o", "r", "d", " ", "I", "D", ":", " ", "9">>
    /\ Lines(out.text)[4] =
         <<"2", "4", "5", " ", " ", "1", "0", " ", "a", " ", "T", "i", " ", "c", " ", "X">>

(***************************************************************************)
(* C10.  Original claim: whenever a call has written text into the text    *)
(* area, the text area is visible and the placeholder hidden.  Violated:   *)
(* when open() fails on the first file, the error message is set on the    *)
(* text area that __init__ hid, the show/hide calls being inside the with  *)
(* block the exception skips.                                              *)
(***************************************************************************)
C10_WrittenTextIsVisible ==
    wrote => (textVisible /\ ~placeholderVisible)

=============================================================================
